---------------------------- MODULE Spec2Model ----------------------------
(***************************************************************************)
(* Model of the Kusuma settlement service: the in-memory ledger            *)
(* (app/store.py), the currency converter (app/currency.py) and the payout *)
(* engine (app/engine.py).                                                 *)
(*                                                                         *)
(* Representation.  A Decimal money amount with two decimal places is the  *)
(* integer number of its hundredths (cents).  A datetime is an integer     *)
(* number of ticks, TicksPerDay ticks to the calendar day; datetime.date() *)
(* is integer division by TicksPerDay.  A commission rate is the integer   *)
(* number of its hundredths (0.10 is 10).  An exchange rate is the pair    *)
(* n/d of its decimal digits.  Python's None is NoTime for an optional     *)
(* datetime and NoParent for an optional id.                               *)
(***************************************************************************)
EXTENDS Integers, Sequences, FiniteSets, TLC

VARIABLES
    sellers,        \* DataStore.sellers: dict seller id -> Seller
    transactions,   \* DataStore.transactions: dict in insertion order, as a sequence
    pc,             \* position of the caller of calculate_payout
    call,           \* arguments of the current calculate_payout call
    seller,         \* calculate_payout's local `seller`
    all_txns,       \* calculate_payout's local `all_txns` (the snapshot read)
    result,         \* what calculate_payout returned or raised
    fraud_out,      \* the list _detect_fraud returned inside the call
    prev            \* history: outcome of the preceding identical call

vars == <<sellers, transactions, pc, call, seller, all_txns, result, fraud_out, prev>>

----------------------------------------------------------------------------
(* models.py *)

Currency == {"IDR", "THB", "VND"}

AUTHORIZED == "authorized"
CAPTURED == "captured"
REFUNDED == "refunded"
CHARGEBACK == "chargeback"

TransactionStatus == {AUTHORIZED, CAPTURED, REFUNDED, CHARGEBACK}

NoTime == -1
NoParent == "None"

TicksPerDay == 2
CommissionScale == 100

\* datetime.date(): the calendar day of a timestamp, time of day dropped
DateOf(ts) == ts \div TicksPerDay

Seller(id, rate, cur) ==
    [id |-> id, name |-> id, commission_rate |-> rate, settlement_currency |-> cur]

Transaction(id, sid, amount, cur, status, created, captured, parent) ==
    [id |-> id, seller_id |-> sid, amount |-> amount, currency |-> cur,
     status |-> status, created_at |-> created, captured_at |-> captured,
     parent_transaction_id |-> parent]

RefundDetail(r) ==
    [refund_id |-> r.id, amount |-> r.amount, currency |-> r.currency,
     status |-> r.status, date |-> r.created_at]

FraudFlag(tid, reason, severity) ==
    [transaction_id |-> tid, reason |-> reason, severity |-> severity]

\* the fields PayoutSummary declares
PayoutSummaryFields ==
    {"seller_id", "seller_name", "commission_rate", "period_start", "period_end",
     "settlement_currency", "gross_volume", "commission_deducted",
     "refunds_deducted", "net_payout", "transaction_count", "refund_count",
     "breakdown"}

\* PayoutSummary(**kwargs): a pydantic BaseModel keeps the declared fields and
\* ignores every other keyword argument
PayoutSummary(kwargs) == [f \in PayoutSummaryFields |-> kwargs[f]]

----------------------------------------------------------------------------
(* currency.py *)

\* Decimal.quantize(Decimal("0.01")) of n/d hundredths: to the nearest integer,
\* a tie to the even neighbour (ROUND_HALF_EVEN, the default context)
RoundHalfEven(n, d) ==
    LET a == IF n < 0 THEN -n ELSE n
        q == a \div d
        r == a % d
        m == IF 2 * r > d \/ (2 * r = d /\ q % 2 = 1) THEN q + 1 ELSE q
    IN  IF n < 0 THEN -m ELSE m

_RATES ==
    [p \in Currency \X Currency |->
        CASE p = <<"IDR", "IDR">> -> [n |-> 1, d |-> 1]
          [] p = <<"IDR", "THB">> -> [n |-> 2268, d |-> 1000000]
          [] p = <<"IDR", "VND">> -> [n |-> 15500, d |-> 10000]
          [] p = <<"THB", "IDR">> -> [n |-> 44099, d |-> 100]
          [] p = <<"THB", "THB">> -> [n |-> 1, d |-> 1]
          [] p = <<"THB", "VND">> -> [n |-> 68350, d |-> 100]
          [] p = <<"VND", "IDR">> -> [n |-> 6452, d |-> 10000]
          [] p = <<"VND", "THB">> -> [n |-> 1463, d |-> 1000000]
          [] p = <<"VND", "VND">> -> [n |-> 1, d |-> 1]]

\* every pair of the closed Currency enum has an entry, so the lookup never misses
get_rate(from, to) == _RATES[<<from, to>>]

\* convert: <<converted amount rounded to 2 dp, rate>>
convert(amount, from, to) ==
    LET rate == get_rate(from, to)
    IN  <<RoundHalfEven(amount * rate.n, rate.d), rate>>

----------------------------------------------------------------------------
(* store.py *)

\* dict.get: the seller, or None
NoSeller == Seller("None", 0, "IDR")

\* variant: a miss yields a default seller in place of None
get_seller_or_default(seller_id) ==
    IF seller_id \in DOMAIN sellers THEN sellers[seller_id]
    ELSE Seller(seller_id, 0, "IDR")

get_seller(seller_id) ==
    IF seller_id \in DOMAIN sellers THEN sellers[seller_id] ELSE NoSeller

get_transactions_for_seller(seller_id) ==
    SelectSeq(transactions, LAMBDA t : t.seller_id = seller_id)

\* dict assignment: an existing key keeps its position, a new key goes last
DictSet(seq, txn) ==
    IF \E i \in 1..Len(seq) : seq[i].id = txn.id
    THEN [i \in 1..Len(seq) |-> IF seq[i].id = txn.id THEN txn ELSE seq[i]]
    ELSE Append(seq, txn)


----------------------------------------------------------------------------
(* engine.py *)

RECURSIVE SeqSum(_)
\* sum(...) of a sequence of integers
SeqSum(s) == IF s = <<>> THEN 0 ELSE Head(s) + SeqSum(Tail(s))

Max(a, b) == IF a >= b THEN a ELSE b

\* variant: the capture timestamp is compared with the dates at midnight, the
\* time of day not dropped
CapturedByTimestamp(txns, start_date, end_date) ==
    SelectSeq(txns, LAMBDA t :
        /\ t.status = CAPTURED
        /\ t.captured_at # NoTime
        /\ start_date * TicksPerDay <= t.captured_at
        /\ t.captured_at <= end_date * TicksPerDay)

\* step 1: the seller's CAPTURED transactions whose capture date is in the window
Captured(txns, start_date, end_date) ==
    SelectSeq(txns, LAMBDA t :
        /\ t.status = CAPTURED
        /\ t.captured_at # NoTime
        /\ start_date <= DateOf(t.captured_at)
        /\ DateOf(t.captured_at) <= end_date)

CapturedIds(captured) == {captured[i].id : i \in DOMAIN captured}

\* order enumerates the set S, each element once
IsOrderOf(order, S) ==
    /\ DOMAIN order = 1..Cardinality(S)
    /\ {order[i] : i \in DOMAIN order} = S

\* the orders in which a Python set of ids may be iterated
SetOrders(S) ==
    {o \in [1..Cardinality(S) -> S] : \A i, j \in DOMAIN o : i # j => o[i] # o[j]}

\* variant: only the refunds dated up to the end of the window are linked
RefundMapInWindow(txns, captured_ids, order) ==
    [i \in DOMAIN order |->
        [key |-> order[i],
         val |-> SelectSeq(txns, LAMBDA t :
                    /\ t.status \in {REFUNDED, CHARGEBACK}
                    /\ t.parent_transaction_id = order[i]
                    /\ DateOf(t.created_at) <= call.end_date)]]

\* variant: a refund of any capture of the window is listed under every key
RefundMapAnyParent(txns, captured_ids, order) ==
    [i \in DOMAIN order |->
        [key |-> order[i],
         val |-> SelectSeq(txns, LAMBDA t :
                    /\ t.status \in {REFUNDED, CHARGEBACK}
                    /\ t.parent_transaction_id \in captured_ids)]]

\* variant: the linkage loop reads the ledger a second time, not the list the
\* call already holds
RefundMapLive(txns, captured_ids, order) ==
    [i \in DOMAIN order |->
        [key |-> order[i],
         val |-> SelectSeq(get_transactions_for_seller(call.seller_id), LAMBDA t :
                    /\ t.status \in {REFUNDED, CHARGEBACK}
                    /\ t.parent_transaction_id \in captured_ids
                    /\ t.parent_transaction_id = order[i])]]

\* step 2: refund_map, a dict whose keys are inserted in the iteration order
\* `order` of the set captured_ids; each value lists, in all_txns order, the
\* refunds and chargebacks whose parent is that key
RefundMap(txns, captured_ids, order) ==
    [i \in DOMAIN order |->
        [key |-> order[i],
         val |-> SelectSeq(txns, LAMBDA t :
                    /\ t.status \in {REFUNDED, CHARGEBACK}
                    /\ t.parent_transaction_id \in captured_ids
                    /\ t.parent_transaction_id = order[i])]]

\* refund_map.get(tid, [])
RefundMapGet(refund_map, tid) ==
    IF \E i \in DOMAIN refund_map : refund_map[i].key = tid
    THEN refund_map[CHOOSE i \in DOMAIN refund_map : refund_map[i].key = tid].val
    ELSE <<>>

RECURSIVE InsertByCapturedAt(_, _)
\* t goes after every element whose captured_at is not later (stable)
InsertByCapturedAt(s, t) ==
    IF s = <<>> THEN <<t>>
    ELSE IF Head(s).captured_at <= t.captured_at
         THEN <<Head(s)>> \o InsertByCapturedAt(Tail(s), t)
         ELSE <<t>> \o s

RECURSIVE SortedByCapturedAt(_)
\* sorted(captured, key=lambda t: t.captured_at): stable, ascending
SortedByCapturedAt(s) ==
    IF s = <<>> THEN <<>>
    ELSE InsertByCapturedAt(SortedByCapturedAt(SubSeq(s, 1, Len(s) - 1)), s[Len(s)])

\* variant: the refunds are subtracted without the floor at zero
NetAfterRefundsUnclamped(amount, total_refunded) == amount - total_refunded

\* amount of the transaction left after its refunds, never below zero
NetAfterRefunds(amount, total_refunded) == Max(0, amount - total_refunded)

\* variant: the commission is rounded half up
CommissionHalfUp(net_after_refunds, rate) ==
    (2 * net_after_refunds * rate + CommissionScale) \div (2 * CommissionScale)

\* commission on the post-refund amount, rounded to 2 dp
Commission(net_after_refunds, rate) ==
    RoundHalfEven(net_after_refunds * rate, CommissionScale)

\* variant: a line item counts once when it has any refund
RefundsOfAsFlag(item) == IF item.refunds # <<>> THEN 1 ELSE 0

\* refund count of one line item
RefundsOf(item) == Len(item.refunds)

\* variant: net_payout is what is left of the converted figures, not a
\* conversion of its own
LineItemNetOfConverted(txn, linked, sel) ==
    LET sc == sel.settlement_currency
        total_refunded_orig == SeqSum([i \in DOMAIN linked |-> linked[i].amount])
        net_after_refunds_orig == NetAfterRefunds(txn.amount, total_refunded_orig)
        commission_orig == Commission(net_after_refunds_orig, sel.commission_rate)
        cg == convert(txn.amount, txn.currency, sc)
        converted_refunds == convert(total_refunded_orig, txn.currency, sc)[1]
        converted_commission == convert(commission_orig, txn.currency, sc)[1]
    IN  [transaction_id |-> txn.id,
         captured_at |-> txn.captured_at,
         original_amount |-> txn.amount,
         original_currency |-> txn.currency,
         converted_gross |-> cg[1],
         exchange_rate |-> cg[2],
         refunds |-> [i \in DOMAIN linked |-> RefundDetail(linked[i])],
         total_refunded_converted |-> converted_refunds,
         gross_after_refunds |-> Max(0, cg[1] - converted_refunds),
         commission_rate |-> sel.commission_rate,
         commission_amount |-> converted_commission,
         net_payout |-> Max(0, cg[1] - converted_refunds - converted_commission)]

\* variant: the commission is taken on the gross amount
LineItemCommissionOnGross(txn, linked, sel) ==
    LET sc == sel.settlement_currency
        total_refunded_orig == SeqSum([i \in DOMAIN linked |-> linked[i].amount])
        net_after_refunds_orig == NetAfterRefunds(txn.amount, total_refunded_orig)
        commission_orig == Commission(txn.amount, sel.commission_rate)
        net_orig == net_after_refunds_orig - commission_orig
        cg == convert(txn.amount, txn.currency, sc)
        converted_refunds == convert(total_refunded_orig, txn.currency, sc)[1]
    IN  [transaction_id |-> txn.id,
         captured_at |-> txn.captured_at,
         original_amount |-> txn.amount,
         original_currency |-> txn.currency,
         converted_gross |-> cg[1],
         exchange_rate |-> cg[2],
         refunds |-> [i \in DOMAIN linked |-> RefundDetail(linked[i])],
         total_refunded_converted |-> converted_refunds,
         gross_after_refunds |-> Max(0, cg[1] - converted_refunds),
         commission_rate |-> sel.commission_rate,
         commission_amount |-> convert(commission_orig, txn.currency, sc)[1],
         net_payout |-> convert(net_orig, txn.currency, sc)[1]]

\* step 3: the body of the loop over the sorted captured transactions
LineItem(txn, linked, sel) ==
    LET sc == sel.settlement_currency
        total_refunded_orig == SeqSum([i \in DOMAIN linked |-> linked[i].amount])
        net_after_refunds_orig == NetAfterRefunds(txn.amount, total_refunded_orig)
        commission_orig == Commission(net_after_refunds_orig, sel.commission_rate)
        net_orig == net_after_refunds_orig - commission_orig
        cg == convert(txn.amount, txn.currency, sc)
        converted_refunds == convert(total_refunded_orig, txn.currency, sc)[1]
        converted_commission == convert(commission_orig, txn.currency, sc)[1]
        converted_net == convert(net_orig, txn.currency, sc)[1]
    IN  [transaction_id |-> txn.id,
         captured_at |-> txn.captured_at,
         original_amount |-> txn.amount,
         original_currency |-> txn.currency,
         converted_gross |-> cg[1],
         exchange_rate |-> cg[2],
         refunds |-> [i \in DOMAIN linked |-> RefundDetail(linked[i])],
         total_refunded_converted |-> converted_refunds,
         gross_after_refunds |-> Max(0, cg[1] - converted_refunds),
         commission_rate |-> sel.commission_rate,
         commission_amount |-> converted_commission,
         net_payout |-> converted_net]

\* the transactions the line-item loop walks, in its order
LoopOrder(captured) == SortedByCapturedAt(captured)

\* variant: the loop walks the keys of refund_map in place of the sorted list
LineItemsByMap(captured, refund_map, sel) ==
    [i \in DOMAIN refund_map |->
        LineItem(captured[CHOOSE j \in DOMAIN captured :
                              captured[j].id = refund_map[i].key],
                 refund_map[i].val, sel)]

LineItems(captured, refund_map, sel) ==
    LET walk == LoopOrder(captured)
    IN  [i \in DOMAIN walk |->
            LineItem(walk[i], RefundMapGet(refund_map, walk[i].id), sel)]

\* the multiples of the average _detect_fraud compares an amount with
Thresholds == {3, 5}

\* variant: the amount is compared with the mean of the other amounts
IsOutlierAmongOthers(txn, captured, k, below) ==
    LET n == Len(captured)
        sum == SeqSum([i \in DOMAIN captured |-> captured[i].amount])
    IN  \/ txn.amount * (n - 1) > k * (sum - txn.amount)
        \/ txn.amount * n = k * sum /\ sum > 0 /\ k \in below

\* variant: the severity is decided by the threshold of the flag itself
IsOutlierOfThree(txn, captured, k, below) ==
    LET n == Len(captured)
        sum == SeqSum([i \in DOMAIN captured |-> captured[i].amount])
    IN  \/ txn.amount * n > 3 * sum
        \/ txn.amount * n = 3 * sum /\ sum > 0 /\ 3 \in below

\* _detect_fraud: float(txn.amount) > avg * k with avg = sum(amounts) / len, in
\* binary floating point.  Away from equality the doubles decide as the exact
\* amount * len > k * sum does.  At amount * len = k * sum the rounding of the
\* sum, the quotient and the product decides, and it goes both ways: of the
\* amounts 0.25, 0, 0 none is above 3 * avg, of 1.68, 0, 0 the first is, and
\* of 0.01, 0.01, 0.01, 0.01, 0.01, 0.05, 0.05, 0.25 the last is above 5 * avg
\* in one order of summation and not in another.  `below` holds the k for
\* which avg * k comes out below the amount in this call; two amounts that tie
\* at the same k are equal, and so is their comparison.  An average of 0.0
\* multiplies exactly.
IsOutlier(txn, captured, k, below) ==
    LET n == Len(captured)
        sum == SeqSum([i \in DOMAIN captured |-> captured[i].amount])
    IN  \/ txn.amount * n > k * sum
        \/ txn.amount * n = k * sum /\ sum > 0 /\ k \in below

\* the k for which some amount of the window sits at k times the average, where
\* alone the rounding has a say
TiedAt(captured) ==
    LET n == Len(captured)
        sum == SeqSum([i \in DOMAIN captured |-> captured[i].amount])
    IN  {k \in Thresholds :
            sum > 0 /\ \E i \in DOMAIN captured : captured[i].amount * n = k * sum}

\* the ratio amount / avg to one decimal place, as the reason prints it
Multiple(txn, captured) ==
    RoundHalfEven(10 * txn.amount * Len(captured),
                  SeqSum([i \in DOMAIN captured |-> captured[i].amount]))

TxnFlag(txn, captured, below) ==
    FraudFlag(txn.id,
              <<"Amount", txn.amount, txn.currency, Multiple(txn, captured)>>,
              IF IsOutlier(txn, captured, 5, below) THEN "high" ELSE "medium")

\* the transactions _detect_fraud walks, in its order: the list it is handed
FraudWalk(captured) == captured

RefundedCount(refund_map) ==
    Cardinality({i \in DOMAIN refund_map : refund_map[i].val # <<>>})

SellerFlag(refunded_count, n) ==
    FraudFlag("SELLER",
              <<"High refund rate", refunded_count, n,
                RoundHalfEven(100 * refunded_count, n)>>,
              "medium")

_detect_fraud(captured, refund_map, sel, below) ==
    IF captured = <<>> THEN <<>>
    ELSE LET walk == FraudWalk(captured)
             hits == SelectSeq(walk, LAMBDA t : IsOutlier(t, captured, 3, below))
             refunded_count == RefundedCount(refund_map)
         IN  [i \in DOMAIN hits |-> TxnFlag(hits[i], captured, below)]
             \o (IF Len(captured) > 0 /\ 100 * refunded_count > 30 * Len(captured)
                 THEN <<SellerFlag(refunded_count, Len(captured))>>
                 ELSE <<>>)

\* str(date)
DateStr(d) == <<"date", d>>

\* step 4 and the keyword arguments of the final PayoutSummary(...) call
SummaryArgs(seller_id, start_date, end_date, sel, txns, order, below) ==
    LET captured == Captured(txns, start_date, end_date)
        refund_map == RefundMap(txns, CapturedIds(captured), order)
        line_items == LineItems(captured, refund_map, sel)
        Total(f) == SeqSum([i \in DOMAIN line_items |-> line_items[i][f]])
    IN      [seller_id |-> seller_id,
             seller_name |-> sel.name,
             commission_rate |-> sel.commission_rate,
             period_start |-> DateStr(start_date),
             period_end |-> DateStr(end_date),
             settlement_currency |-> sel.settlement_currency,
             gross_volume |-> Total("converted_gross"),
             commission_deducted |-> Total("commission_amount"),
             refunds_deducted |-> Total("total_refunded_converted"),
             net_payout |-> Total("net_payout"),
             transaction_count |-> Len(captured),
             refund_count |->
                 SeqSum([i \in DOMAIN line_items |-> RefundsOf(line_items[i])]),
             fraud_flags |-> _detect_fraud(captured, refund_map, sel, below),
             breakdown |-> line_items]

----------------------------------------------------------------------------
(* the state machine *)

NoCall == [seller_id |-> "None", start_date |-> 0, end_date |-> 0]
NoResult == [kind |-> "none"]
SellerNotFound == [kind |-> "error", error |-> "SellerNotFound"]
Returned(summary) == [kind |-> "summary", value |-> summary]
NoPrev == [kind |-> "none"]

Init ==
    /\ sellers = <<>>
    /\ transactions = <<>>
    /\ pc = "idle"
    /\ call = NoCall
    /\ seller = NoSeller
    /\ all_txns = <<>>
    /\ result = NoResult
    /\ fraud_out = <<>>
    /\ prev = NoPrev

frame == <<pc, call, seller, all_txns, result, fraud_out, prev>>

\* DataStore.add_seller
AddSeller(s) ==
    /\ sellers' = [id \in DOMAIN sellers \cup {s.id} |->
                      IF id = s.id THEN s ELSE sellers[id]]
    /\ UNCHANGED <<transactions, frame>>

\* DataStore.add_transaction
AddTransaction(txn) ==
    /\ transactions' = DictSet(transactions, txn)
    /\ UNCHANGED <<sellers, frame>>

\* DataStore.clear
Clear ==
    /\ sellers' = <<>>
    /\ transactions' = <<>>
    /\ UNCHANGED frame

\* calculate_payout, lines 52-56: the seller lookup, the typed failure, and the
\* one read of the seller's transactions.  prev keeps the outcome of the call
\* that has just returned when this call repeats its arguments on the same
\* ledger state.
CalcRead(seller_id, start_date, end_date) ==
    LET args == [seller_id |-> seller_id, start_date |-> start_date,
                 end_date |-> end_date]
    IN  /\ pc \in {"idle", "done"}
        /\ call' = args
        /\ prev' = IF pc = "done" /\ call = args
                   THEN [kind |-> "call", result |-> result, fraud_out |-> fraud_out]
                   ELSE NoPrev
        /\ fraud_out' = <<>>
        /\ IF get_seller(seller_id) = NoSeller
           THEN /\ result' = SellerNotFound
                /\ pc' = "done"
                /\ seller' = NoSeller
                /\ all_txns' = <<>>
           ELSE /\ result' = NoResult
                /\ pc' = "computing"
                /\ seller' = get_seller(seller_id)
                /\ all_txns' = get_transactions_for_seller(seller_id)
        /\ UNCHANGED <<sellers, transactions>>

\* calculate_payout, lines 58-152, on the snapshot all_txns; `order` is the
\* order in which the set captured_ids happens to be iterated, `below` the way
\* the floating-point comparisons of _detect_fraud fall at equality
CalcCompute(order) ==
    LET captured == Captured(all_txns, call.start_date, call.end_date)
    IN  /\ pc = "computing"
        /\ IsOrderOf(order, CapturedIds(captured))
        /\ \E below \in SUBSET TiedAt(captured) :
             LET kwargs == SummaryArgs(call.seller_id, call.start_date,
                                       call.end_date, seller, all_txns, order,
                                       below)
             IN  /\ fraud_out' = kwargs.fraud_flags
                 /\ result' = Returned(PayoutSummary(kwargs))
        /\ pc' = "done"
        /\ UNCHANGED <<sellers, transactions, call, seller, all_txns, prev>>

\* the caller takes the outcome; the call's frame is gone
Return ==
    /\ pc = "done"
    /\ pc' = "idle"
    /\ call' = NoCall
    /\ seller' = NoSeller
    /\ all_txns' = <<>>
    /\ result' = NoResult
    /\ fraud_out' = <<>>
    /\ prev' = NoPrev
    /\ UNCHANGED <<sellers, transactions>>

----------------------------------------------------------------------------
(* Spec: the ledger and the linkage of refunds to captures *)

MaxTxns == 3

TxnIds == {"T1", "T2"}
RefundIds == {"R1", "R2"}

\* query windows <<start_date, end_date>>; the ledger's timestamps span days 0..2
Windows == {<<0, 0>>, <<0, 1>>, <<1, 1>>}

SellerInputs == {Seller("S1", 10, "IDR")}

QueryIds == {"S1", "S2"}

\* captures at the ticks 1 (day 0), 2 and 3 (day 1) or with no capture time, an
\* authorization that carries a capture time, a capture of another seller;
\* refunds before (tick 0), inside (2) and after (5) the day of their parent,
\* a chargeback after it
TxnInputs ==
    {Transaction(id, "S1", 10, "THB", CAPTURED, 0, at, NoParent) :
        id \in TxnIds, at \in {NoTime, 1, 2, 3}}
    \cup {Transaction("T1", "S1", 10, "THB", AUTHORIZED, 0, 2, NoParent),
          Transaction("T2", "S2", 10, "THB", CAPTURED, 0, 2, NoParent)}
    \cup {Transaction(id, "S1", 10, "THB", REFUNDED, at, at, "T1") :
            id \in RefundIds, at \in {0, 2, 5}}
    \cup {Transaction(id, "S1", 10, "THB", REFUNDED, 5, 5, "T2") : id \in RefundIds}
    \cup {Transaction(id, "S1", 10, "THB", CHARGEBACK, 5, 5, "T1") : id \in RefundIds}

\* the captured list of the call in progress
CapturedNow == Captured(all_txns, call.start_date, call.end_date)

\* room in the ledger for the transaction
Fits(txn) ==
    \/ Len(transactions) < MaxTxns
    \/ \E i \in DOMAIN transactions : transactions[i].id = txn.id

Next ==
    \/ \E s \in SellerInputs : pc = "idle" /\ AddSeller(s)
    \/ \E txn \in TxnInputs : pc = "idle" /\ Fits(txn) /\ AddTransaction(txn)
    \/ pc = "idle" /\ Clear
    \/ \E sid \in QueryIds, w \in Windows : CalcRead(sid, w[1], w[2])
    \/ \E order \in SetOrders(CapturedIds(CapturedNow)) : CalcCompute(order)
    \/ Return

Spec == Init /\ [][Next]_vars

----------------------------------------------------------------------------
(* SpecMoney: the arithmetic of a line item.  One capture of every amount and
   currency with up to two refunds, a seller of every commission rate and
   settlement currency *)

Amounts == {0, 5, 10}
RefundAmounts == {5, 10}
CommissionRates == {0, 10, 50, 100}

MoneySellers == {Seller("S1", rate, cur) : rate \in CommissionRates, cur \in Currency}

MoneyTxns ==
    {Transaction("T1", "S1", a, cur, CAPTURED, 0, 2, NoParent) :
        a \in Amounts, cur \in Currency}
    \cup {Transaction("R1", "S1", a, "THB", REFUNDED, at, at, "T1") :
            a \in RefundAmounts, at \in {2, 5}}
    \cup {Transaction("R2", "S1", a, "THB", CHARGEBACK, at, at, "T1") :
            a \in RefundAmounts, at \in {2, 5}}

NextMoney ==
    \/ \E s \in MoneySellers : pc = "idle" /\ AddSeller(s)
    \/ \E txn \in MoneyTxns : pc = "idle" /\ Fits(txn) /\ AddTransaction(txn)
    \/ pc = "idle" /\ Clear
    \/ CalcRead("S1", 1, 1)
    \/ \E order \in SetOrders(CapturedIds(CapturedNow)) : CalcCompute(order)
    \/ Return

SpecMoney == Init /\ [][NextMoney]_vars

----------------------------------------------------------------------------
(* SpecFraud: the fraud heuristics.  The ledger starts as the service seeds it
   at startup, here with five small captures of one seller, two of them
   refunded; further captures of no amount and of 168 times the seeded amount
   are then recorded *)

MaxFraudTxns == 9

SeedTxns ==
    <<Transaction("F1", "S1", 1, "IDR", CAPTURED, 0, 2, NoParent),
      Transaction("F2", "S1", 1, "IDR", CAPTURED, 0, 2, NoParent),
      Transaction("F3", "S1", 1, "IDR", CAPTURED, 0, 2, NoParent),
      Transaction("F4", "S1", 1, "IDR", CAPTURED, 0, 2, NoParent),
      Transaction("F5", "S1", 1, "IDR", CAPTURED, 0, 2, NoParent),
      Transaction("R1", "S1", 1, "IDR", REFUNDED, 5, NoTime, "F1"),
      Transaction("R2", "S1", 1, "IDR", CHARGEBACK, 5, NoTime, "F2")>>

InitFraud ==
    /\ sellers = [id \in {"S1"} |-> Seller("S1", 10, "IDR")]
    /\ transactions = SeedTxns
    /\ pc = "idle"
    /\ call = NoCall
    /\ seller = NoSeller
    /\ all_txns = <<>>
    /\ result = NoResult
    /\ fraud_out = <<>>
    /\ prev = NoPrev

FraudTxns ==
    {Transaction(id, "S1", a, "IDR", CAPTURED, 0, at, NoParent) :
        id \in {"F6", "F7", "F8"}, a \in {0, 168}, at \in {1, 3}}

FitsFraud(txn) ==
    \/ Len(transactions) < MaxFraudTxns
    \/ \E i \in DOMAIN transactions : transactions[i].id = txn.id

IdsOf(captured) == [i \in DOMAIN captured |-> captured[i].id]

Reverse(seq) == [i \in DOMAIN seq |-> seq[Len(seq) + 1 - i]]

NextFraud ==
    \/ \E s \in SellerInputs : pc = "idle" /\ AddSeller(s)
    \/ \E txn \in FraudTxns : pc = "idle" /\ FitsFraud(txn) /\ AddTransaction(txn)
    \/ pc = "idle" /\ Clear
    \/ \E w \in {<<0, 1>>, <<1, 1>>} : CalcRead("S1", w[1], w[2])
    \/ \E order \in {IdsOf(CapturedNow), Reverse(IdsOf(CapturedNow))} :
           CalcCompute(order)
    \/ Return

SpecFraud == InitFraud /\ [][NextFraud]_vars

----------------------------------------------------------------------------
(* SpecConc: one call of calculate_payout while other callers write to the
   ledger.  The call's two reads, get_seller and get_transactions_for_seller,
   are steps of their own, and a write may fall before, between and after
   them *)

\* calculate_payout, lines 52-54: the seller lookup
CalcLookup(seller_id, start_date, end_date) ==
    /\ pc \in {"idle", "done"}
    /\ call' = [seller_id |-> seller_id, start_date |-> start_date,
                end_date |-> end_date]
    /\ prev' = NoPrev
    /\ fraud_out' = <<>>
    /\ all_txns' = <<>>
    /\ seller' = get_seller(seller_id)
    /\ IF get_seller(seller_id) = NoSeller
       THEN result' = SellerNotFound /\ pc' = "done"
       ELSE result' = NoResult /\ pc' = "fetching"
    /\ UNCHANGED <<sellers, transactions>>

\* calculate_payout, line 56: the one read of the seller's transactions
CalcFetch ==
    /\ pc = "fetching"
    /\ all_txns' = get_transactions_for_seller(call.seller_id)
    /\ pc' = "computing"
    /\ UNCHANGED <<sellers, transactions, call, seller, result, fraud_out, prev>>

\* the seller is registered again with another commission rate
ConcSellers == {Seller("S1", 10, "IDR"), Seller("S1", 50, "IDR")}

\* two captures of the queried day, one of them also with another amount, and
\* a refund of the first
ConcTxns ==
    {Transaction("T1", "S1", 10, "THB", CAPTURED, 0, 2, NoParent),
     Transaction("T1", "S1", 5, "THB", CAPTURED, 0, 2, NoParent),
     Transaction("T2", "S1", 10, "THB", CAPTURED, 0, 2, NoParent),
     Transaction("R1", "S1", 5, "THB", REFUNDED, 5, 5, "T1")}

NextConc ==
    \/ \E s \in ConcSellers : AddSeller(s)
    \/ \E txn \in ConcTxns : Fits(txn) /\ AddTransaction(txn)
    \/ Clear
    \/ CalcLookup("S1", 1, 1)
    \/ CalcFetch
    \/ \E order \in SetOrders(CapturedIds(CapturedNow)) : CalcCompute(order)
    \/ Return

SpecConc == Init /\ [][NextConc]_vars

----------------------------------------------------------------------------
(* SpecSmall: windows of a few captures.  The ledger starts empty and receives
   up to MaxSmallTxns transactions: one capture of 0.21 or 1.68, one of nothing
   or 0.21, three of nothing, and a refund of the first.  Alone among captures
   of nothing, 0.21 and 1.68 are amounts that the floating-point product
   avg * 3 (in a window of three) and avg * 5 (in a window of five) falls
   short of *)

MaxSmallTxns == 5

SmallTxns ==
    {Transaction("Z1", "S1", a, "IDR", CAPTURED, 0, 2, NoParent) : a \in {21, 168}}
    \cup {Transaction("Z2", "S1", a, "IDR", CAPTURED, 0, 2, NoParent) : a \in {0, 21}}
    \cup {Transaction(id, "S1", 0, "IDR", CAPTURED, 0, 2, NoParent) :
            id \in {"Z3", "Z4", "Z5"}}
    \cup {Transaction("R1", "S1", 1, "IDR", REFUNDED, 5, NoTime, "Z1")}

FitsSmall(txn) ==
    \/ Len(transactions) < MaxSmallTxns
    \/ \E i \in DOMAIN transactions : transactions[i].id = txn.id

NextSmall ==
    \/ \E s \in SellerInputs : pc = "idle" /\ AddSeller(s)
    \/ \E txn \in SmallTxns : pc = "idle" /\ FitsSmall(txn) /\ AddTransaction(txn)
    \/ CalcRead("S1", 1, 1)
    \/ CalcCompute(IdsOf(CapturedNow))
    \/ Return

SpecSmall == Init /\ [][NextSmall]_vars

----------------------------------------------------------------------------
(* what the claims speak of, stated on the call's frame *)

\* calculate_payout has returned a summary
Finished == pc = "done" /\ result.kind = "summary"

breakdown == result.value.breakdown

IsRefund(t) == t.status \in {REFUNDED, CHARGEBACK}

\* t was captured on a day of the requested window
InWindow(t) ==
    /\ t.status = CAPTURED
    /\ t.captured_at # NoTime
    /\ call.start_date * TicksPerDay <= t.captured_at
    /\ t.captured_at < (call.end_date + 1) * TicksPerDay

\* positions in the snapshot of the captures inside the window
WindowCaptures == {i \in DOMAIN all_txns : InWindow(all_txns[i])}

\* positions in the snapshot of the refunds and chargebacks whose parent is tid
RefundsFor(tid) ==
    {i \in DOMAIN all_txns :
        IsRefund(all_txns[i]) /\ all_txns[i].parent_transaction_id = tid}

RECURSIVE AmountSum(_)
AmountSum(S) ==
    IF S = {} THEN 0
    ELSE LET i == CHOOSE x \in S : TRUE
         IN  all_txns[i].amount + AmountSum(S \ {i})

\* ids of the line item's refund audit list
RefundIdsOf(item) == {item.refunds[k].refund_id : k \in DOMAIN item.refunds}

\* C1: every refund or chargeback of the seller whose parent is a capture inside
\* the window is listed in the parent's line item and deducted from it, wherever
\* the refund's own timestamp lies
C1_RefundLeakBack ==
    Finished =>
        \A p \in WindowCaptures : \A r \in RefundsFor(all_txns[p].id) :
            \E k \in DOMAIN breakdown :
                LET item == breakdown[k]
                    refunded == convert(AmountSum(RefundsFor(all_txns[p].id)),
                                        all_txns[p].currency,
                                        seller.settlement_currency)[1]
                IN  /\ item.transaction_id = all_txns[p].id
                    /\ all_txns[r].id \in RefundIdsOf(item)
                    /\ item.total_refunded_converted = refunded
                    /\ item.gross_after_refunds
                         = Max(0, item.converted_gross - refunded)

\* a capture in the window with one refund dated before the window's start and
\* one dated after its end
C1_Witness ==
    /\ Finished
    /\ \E p \in WindowCaptures : \E r1, r2 \in RefundsFor(all_txns[p].id) :
         /\ DateOf(all_txns[r1].created_at) < call.start_date
         /\ DateOf(all_txns[r2].created_at) > call.end_date
         /\ result.value.refunds_deducted > 0

\* C5: refund_count is the number of refund and chargeback records linked to
\* captures in the window, not the number of captures that have a refund
C5_RefundCount ==
    Finished =>
        result.value.refund_count
          = Cardinality({r \in DOMAIN all_txns :
                /\ IsRefund(all_txns[r])
                /\ \E p \in WindowCaptures :
                       all_txns[r].parent_transaction_id = all_txns[p].id})

\* one capture with two linked refunds
C5_Witness ==
    /\ Finished
    /\ result.value.transaction_count = 1
    /\ result.value.refund_count = 2

\* C6: the line items are exactly the seller's CAPTURED transactions with a
\* capture time on a day from start_date to end_date, both inclusive, and
\* transaction_count and the length of breakdown are their number
C6_CapturedFilter ==
    Finished =>
        /\ result.value.transaction_count = Cardinality(WindowCaptures)
        /\ Len(breakdown) = Cardinality(WindowCaptures)
        /\ {breakdown[k].transaction_id : k \in DOMAIN breakdown}
             = {all_txns[i].id : i \in WindowCaptures}

\* a capture later in the end day than midnight is counted, a refund that
\* carries a capture time inside the window is not
C6_Witness ==
    /\ Finished
    /\ result.value.transaction_count = 1
    /\ \E i \in WindowCaptures :
         /\ DateOf(all_txns[i].captured_at) = call.end_date
         /\ all_txns[i].captured_at > call.end_date * TicksPerDay
    /\ \E i \in DOMAIN all_txns :
         /\ all_txns[i].status # CAPTURED
         /\ all_txns[i].captured_at # NoTime
         /\ DateOf(all_txns[i].captured_at) \in call.start_date..call.end_date

\* C7: the call fails with seller-not-found, and returns no summary, exactly
\* when the ledger has no seller of the requested id
C7_SellerNotFound ==
    /\ pc = "done" =>
         /\ result = SellerNotFound <=> call.seller_id \notin DOMAIN sellers
         /\ result.kind = "summary" <=> call.seller_id \in DOMAIN sellers
    /\ pc = "computing" => call.seller_id \in DOMAIN sellers

\* the failure, on a ledger that holds transactions under the unknown seller id
C7_Witness ==
    /\ pc = "done"
    /\ result = SellerNotFound
    /\ \E i \in DOMAIN transactions : transactions[i].seller_id = call.seller_id

\* C8: the returned summary carries fraud_flags, the detector's list, each flag
\* of severity medium or high, and the totals are the sums over the breakdown
C8_FraudFlagsAttached ==
    Finished =>
        /\ "fraud_flags" \in DOMAIN result.value
        /\ result.value.fraud_flags = fraud_out
        /\ \A k \in DOMAIN fraud_out : fraud_out[k].severity \in {"medium", "high"}
        /\ result.value.net_payout
             = SeqSum([k \in DOMAIN breakdown |-> breakdown[k].net_payout])

\* C10: a call that repeats the arguments of the call before it, on the same
\* ledger state, returns the same outcome: totals, counts, breakdown order,
\* fraud flags
C10_Determinism ==
    pc = "done" /\ prev.kind = "call" =>
        /\ prev.result = result
        /\ prev.fraud_out = fraud_out

\* a repeated call whose window holds two captures of equal capture time and
\* a linked refund
C10_Witness ==
    /\ Finished
    /\ prev.kind = "call"
    /\ result.value.refund_count > 0
    /\ \E j, k \in DOMAIN breakdown :
         j # k /\ breakdown[j].captured_at = breakdown[k].captured_at

\* the line item of the capture at position p of the snapshot
ItemFor(p) ==
    breakdown[CHOOSE k \in DOMAIN breakdown :
                  breakdown[k].transaction_id = all_txns[p].id]

\* the capture's amount times the seller's commission rate falls on half a cent
CommissionTie(p) ==
    2 * ((all_txns[p].amount * seller.commission_rate) % CommissionScale)
        = CommissionScale

\* C2: a capture in the window whose linked refunds and chargebacks total its
\* amount has net_payout 0 and commission_amount 0, for every commission rate,
\* currency pair and refund date
C2_FullRefundZero ==
    Finished =>
        \A p \in WindowCaptures :
            AmountSum(RefundsFor(all_txns[p].id)) = all_txns[p].amount =>
                /\ ItemFor(p).net_payout = 0
                /\ ItemFor(p).commission_amount = 0

\* a fully refunded capture of a positive amount, settled in another currency
\* at a positive commission rate, with a refund dated after the window
C2_Witness ==
    /\ Finished
    /\ seller.commission_rate > 0
    /\ \E p \in WindowCaptures :
         /\ all_txns[p].amount > 0
         /\ all_txns[p].currency # seller.settlement_currency
         /\ AmountSum(RefundsFor(all_txns[p].id)) = all_txns[p].amount
         /\ \E r \in RefundsFor(all_txns[p].id) :
                DateOf(all_txns[r].created_at) > call.end_date
         /\ ItemFor(p).total_refunded_converted > 0

\* C3: with amounts >= 0 and a commission rate in [0,1], every line item's
\* gross_after_refunds and net_payout and the summary's net_payout are >= 0,
\* also when the refunds exceed the captured amount
C3_NonNegative ==
    Finished =>
        /\ \A k \in DOMAIN breakdown :
               /\ breakdown[k].gross_after_refunds >= 0
               /\ breakdown[k].net_payout >= 0
        /\ result.value.net_payout >= 0

\* a capture of a positive amount whose refunds exceed it
C3_Witness ==
    /\ Finished
    /\ \E p \in WindowCaptures :
         /\ all_txns[p].amount > 0
         /\ AmountSum(RefundsFor(all_txns[p].id)) > all_txns[p].amount
         /\ ItemFor(p).total_refunded_converted > ItemFor(p).converted_gross

\* C4 as stated: a capture without refunds has
\* net_payout = convert(round_half_even(amount * (1 - commission_rate)))
C4_NetOfRoundedProduct ==
    Finished =>
        \A p \in WindowCaptures :
            RefundsFor(all_txns[p].id) = {} =>
                ItemFor(p).net_payout
                  = convert(RoundHalfEven(all_txns[p].amount
                                * (CommissionScale - seller.commission_rate),
                                CommissionScale),
                            all_txns[p].currency, seller.settlement_currency)[1]

\* C4 amended: a capture without refunds has
\* net_payout = convert(amount - round_half_even(amount * commission_rate)),
\* and that is the value C4 states unless amount * commission_rate falls on
\* half a cent
C4_NetIsAmountLessCommission ==
    Finished =>
        \A p \in WindowCaptures :
            RefundsFor(all_txns[p].id) = {} =>
                LET a == all_txns[p].amount
                    rounded == RoundHalfEven(a * seller.commission_rate,
                                             CommissionScale)
                    stated == RoundHalfEven(
                                  a * (CommissionScale - seller.commission_rate),
                                  CommissionScale)
                IN  /\ ItemFor(p).net_payout
                         = convert(a - rounded, all_txns[p].currency,
                                   seller.settlement_currency)[1]
                    /\ ~CommissionTie(p) => a - rounded = stated

\* a capture without refunds whose commission falls on half a cent, settled in
\* another currency
C4_Witness ==
    /\ Finished
    /\ \E p \in WindowCaptures :
         /\ RefundsFor(all_txns[p].id) = {}
         /\ CommissionTie(p)
         /\ all_txns[p].currency # seller.settlement_currency
         /\ ItemFor(p).net_payout > 0

\* ids of the per-transaction flags, in the order of emission
TxnFlagIds ==
    LET own == SelectSeq(fraud_out, LAMBDA f : f.transaction_id # "SELLER")
    IN  [k \in DOMAIN own |-> own[k].transaction_id]

\* ids of the flagged transactions, in the order of breakdown
FlaggedInBreakdownOrder ==
    SelectSeq([k \in DOMAIN breakdown |-> breakdown[k].transaction_id],
              LAMBDA id : \E k \in DOMAIN fraud_out : fraud_out[k].transaction_id = id)

\* C9: the per-transaction flags come in the order of breakdown (capture time
\* ascending), and the seller-level flag, if any, comes last
C9_FlagOrder ==
    Finished =>
        /\ TxnFlagIds = FlaggedInBreakdownOrder
        /\ \A k \in DOMAIN fraud_out :
               fraud_out[k].transaction_id = "SELLER" => k = Len(fraud_out)


\* ids of the snapshot's transactions at the positions S
SnapshotIds(S) == {all_txns[i].id : i \in S}

\* the returned summary, stated from the snapshot all_txns and the seller the
\* call looked up
FromSnapshot ==
    /\ result.value.transaction_count = Cardinality(WindowCaptures)
    /\ Len(breakdown) = Cardinality(WindowCaptures)
    /\ {breakdown[k].transaction_id : k \in DOMAIN breakdown}
           = SnapshotIds(WindowCaptures)
    /\ \A p \in WindowCaptures :
           /\ ItemFor(p).original_amount = all_txns[p].amount
           /\ ItemFor(p).commission_rate = seller.commission_rate
           /\ RefundIdsOf(ItemFor(p)) = SnapshotIds(RefundsFor(all_txns[p].id))
    /\ result.value.refund_count
           = Cardinality({i \in DOMAIN all_txns :
                 /\ IsRefund(all_txns[i])
                 /\ all_txns[i].parent_transaction_id \in SnapshotIds(WindowCaptures)})
    /\ result.value.gross_volume
           = SeqSum([k \in DOMAIN breakdown |-> breakdown[k].converted_gross])
    /\ result.value.net_payout
           = SeqSum([k \in DOMAIN breakdown |-> breakdown[k].net_payout])
    /\ result.value.commission_rate = seller.commission_rate
    /\ \A k \in DOMAIN fraud_out :
           fraud_out[k].transaction_id \in SnapshotIds(WindowCaptures) \cup {"SELLER"}

\* C11: calculate_payout reads the seller's transactions once and writes
\* nothing: a step of the call leaves the ledger as it is, the list it holds
\* changes only by the one read (to what the ledger holds for the seller at
\* that moment) and by the call's end, no write of another caller changes the
\* list or the seller the call holds, and the summary returned is the one the
\* held list determines, whatever was written since
C11_OneSnapshot ==
    [][ /\ frame' # frame => UNCHANGED <<sellers, transactions>>
        /\ all_txns' # all_txns =>
               \/ /\ pc = "fetching"
                  /\ all_txns' = SelectSeq(transactions,
                                     LAMBDA t : t.seller_id = call.seller_id)
               \/ all_txns' = <<>>
        /\ pc = "computing" => all_txns' = all_txns /\ seller' = seller
        /\ Finished' => FromSnapshot' ]_vars

\* a summary is returned after a refund of one of its captures was written
\* that the list read before does not hold
C11_Witness ==
    /\ Finished
    /\ \E i \in DOMAIN transactions :
         /\ IsRefund(transactions[i])
         /\ transactions[i].parent_transaction_id \in SnapshotIds(WindowCaptures)
         /\ \A j \in DOMAIN all_txns : all_txns[j] # transactions[i]


\* C12: every line item's converted_gross, total_refunded_converted,
\* commission_amount and net_payout are each the conversion, rounded half-even
\* to 2 dp, of their own original-currency figure: the amount, the refunded
\* total, the commission round(max(0, amount - refunded total) * rate) and
\* what is left of max(0, amount - refunded total) after that commission
C12_PerComponentConversion ==
    Finished =>
        \A p \in WindowCaptures :
            LET t == all_txns[p]
                sc == seller.settlement_currency
                refunded == AmountSum(RefundsFor(t.id))
                left == IF t.amount > refunded THEN t.amount - refunded ELSE 0
                commission == RoundHalfEven(left * seller.commission_rate,
                                            CommissionScale)
            IN  /\ ItemFor(p).converted_gross
                     = convert(t.amount, t.currency, sc)[1]
                /\ ItemFor(p).total_refunded_converted
                     = convert(refunded, t.currency, sc)[1]
                /\ ItemFor(p).commission_amount
                     = convert(commission, t.currency, sc)[1]
                /\ ItemFor(p).net_payout
                     = convert(left - commission, t.currency, sc)[1]

\* a partly refunded capture whose converted figures do not add up to the
\* cent, and whose commission is not the one its gross amount would give
C12_Witness ==
    /\ Finished
    /\ \E p \in WindowCaptures :
         /\ RefundsFor(all_txns[p].id) # {}
         /\ AmountSum(RefundsFor(all_txns[p].id)) < all_txns[p].amount
         /\ ItemFor(p).converted_gross - ItemFor(p).total_refunded_converted
               - ItemFor(p).commission_amount # ItemFor(p).net_payout
         /\ ItemFor(p).commission_amount
               # convert(RoundHalfEven(all_txns[p].amount * seller.commission_rate,
                                       CommissionScale),
                         all_txns[p].currency, seller.settlement_currency)[1]


\* the snapshot without its transaction at position r
Without(r) ==
    [i \in 1..(Len(all_txns) - 1) |->
        IF i < r THEN all_txns[i] ELSE all_txns[i + 1]]

\* the summary of this call, had the seller's transactions been txns
SummaryOf(txns) ==
    LET order == IdsOf(Captured(txns, call.start_date, call.end_date))
    IN  PayoutSummary(SummaryArgs(call.seller_id, call.start_date, call.end_date,
                                  seller, txns, order, {}))

\* the line items whose refund audit list names the transaction id
ItemsListing(id) == {k \in DOMAIN breakdown : id \in RefundIdsOf(breakdown[k])}

\* C13: a refund or chargeback is listed by the line item of its parent and by
\* no other (by none when its parent is not a capture of the window), once;
\* every other line item is what it would be without the refund; and without
\* a parent among the captures of the window the whole summary is what it
\* would be without the refund, whatever the refund's own date
C13_RefundFrame ==
    Finished =>
        /\ \A k \in DOMAIN breakdown :
               Len(breakdown[k].refunds) = Cardinality(RefundIdsOf(breakdown[k]))
        /\ \A r \in DOMAIN all_txns :
               IsRefund(all_txns[r]) =>
                   LET parent == all_txns[r].parent_transaction_id
                       linked == parent \in SnapshotIds(WindowCaptures)
                       other == SummaryOf(Without(r))
                   IN  /\ ItemsListing(all_txns[r].id)
                            = {k \in DOMAIN breakdown :
                                  linked /\ breakdown[k].transaction_id = parent}
                       /\ Len(other.breakdown) = Len(breakdown)
                       /\ \A k \in DOMAIN breakdown :
                              breakdown[k].transaction_id # parent =>
                                  breakdown[k] = other.breakdown[k]
                       /\ ~linked => result.value = other

\* two line items, one with a refund and one without
C13_Witness ==
    /\ Finished
    /\ Len(breakdown) = 2
    /\ \E k \in DOMAIN breakdown : breakdown[k].refunds # <<>>
    /\ \E k \in DOMAIN breakdown : breakdown[k].refunds = <<>>

\* a refund dated inside the window whose parent is captured outside it, next
\* to a capture of the window
RefundInsideParentOutside ==
    /\ Finished
    /\ breakdown # <<>>
    /\ \E r \in DOMAIN all_txns :
         /\ IsRefund(all_txns[r])
         /\ call.start_date <= DateOf(all_txns[r].created_at)
         /\ DateOf(all_txns[r].created_at) <= call.end_date
         /\ all_txns[r].parent_transaction_id \notin SnapshotIds(WindowCaptures)
         /\ \E q \in DOMAIN all_txns :
                all_txns[q].id = all_txns[r].parent_transaction_id


\* number of captures of the window and the sum of their amounts
WindowCount == Cardinality(WindowCaptures)
WindowSum == AmountSum(WindowCaptures)

\* the severities of the flags emitted for the transaction id
SeveritiesOf(id) ==
    {fraud_out[k].severity :
        k \in {j \in DOMAIN fraud_out : fraud_out[j].transaction_id = id}}

\* the captures of the window with at least one linked refund
RefundedCaptures == {p \in WindowCaptures : RefundsFor(all_txns[p].id) # {}}

\* the seller-level flag is there exactly when more than 30% of the captures
\* of the window have a linked refund, and an empty window has no flag
SellerFlagRule ==
    /\ SeveritiesOf("SELLER") # {}
           <=> 100 * Cardinality(RefundedCaptures) > 30 * WindowCount
    /\ SeveritiesOf("SELLER") \subseteq {"medium"}
    /\ WindowCaptures = {} => fraud_out = <<>>
    /\ \A j, k \in DOMAIN fraud_out :
           fraud_out[j].transaction_id = fraud_out[k].transaction_id => j = k
    /\ \A k \in DOMAIN fraud_out :
           fraud_out[k].transaction_id \in SnapshotIds(WindowCaptures) \cup {"SELLER"}

\* C14 as stated: a capture is flagged iff its amount is strictly above 3 times
\* the mean of the window's amounts, the flag is high iff the amount is
\* strictly above 5 times the mean and medium otherwise; the seller-level flag
\* iff the refunded share is strictly above 0.30; no flag for an empty window
C14_ExactThresholds ==
    Finished =>
        /\ SellerFlagRule
        /\ \A p \in WindowCaptures :
               LET a == all_txns[p].amount
                   sev == SeveritiesOf(all_txns[p].id)
               IN  /\ sev # {} <=> a * WindowCount > 3 * WindowSum
                   /\ sev # {} =>
                          sev = IF a * WindowCount > 5 * WindowSum
                                THEN {"high"} ELSE {"medium"}

\* C14 amended: strictly above 3 times the mean a capture is flagged and below
\* it is not, strictly above 5 times the mean the flag is high and below it is
\* medium; an amount that is exactly 3 (5) times a positive mean is flagged
\* (high) or not as the floating-point comparison falls; the seller-level
\* flag and the empty window are as stated
C14_ThresholdsUpToTies ==
    Finished =>
        /\ SellerFlagRule
        /\ \A p \in WindowCaptures :
               LET a == all_txns[p].amount
                   sev == SeveritiesOf(all_txns[p].id)
               IN  /\ a * WindowCount > 3 * WindowSum => sev # {}
                   /\ sev # {} => a * WindowCount >= 3 * WindowSum /\ a > 0
                   /\ sev \subseteq {"medium", "high"}
                   /\ a * WindowCount > 5 * WindowSum => "medium" \notin sev
                   /\ a * WindowCount < 5 * WindowSum => "high" \notin sev

\* a capture whose amount is exactly 3 times the mean is flagged
C14_Witness ==
    /\ Finished
    /\ \E p \in WindowCaptures :
         /\ all_txns[p].amount * WindowCount = 3 * WindowSum
         /\ SeveritiesOf(all_txns[p].id) = {"medium"}


\* the window's captures that carry a flag, and those that carry a high one
Flagged == {p \in WindowCaptures : SeveritiesOf(all_txns[p].id) # {}}
FlaggedHigh == {p \in WindowCaptures : "high" \in SeveritiesOf(all_txns[p].id)}

\* C15 as stated: with non-negative amounts a window of at most 3 captures has
\* no per-transaction flag and a window of at most 5 captures no high one
C15_SmallWindows ==
    Finished =>
        /\ WindowCount <= 3 => Flagged = {}
        /\ WindowCount <= 5 => FlaggedHigh = {}

\* C15 amended: a window of at most 2 captures has no per-transaction flag and
\* one of at most 4 no high flag; in a window of exactly 3 (5) captures a flag
\* (a high flag) falls only on a capture that carries the whole sum of the
\* window, all others being of amount zero, and so never when every amount is
\* positive
C15_SmallWindowsUpToTies ==
    Finished =>
        /\ \A p \in WindowCaptures : all_txns[p].amount >= 0
        /\ WindowCount <= 3 =>
               \A p \in Flagged :
                   WindowCount = 3 /\ all_txns[p].amount = WindowSum
        /\ WindowCount <= 5 =>
               \A p \in FlaggedHigh :
                   WindowCount = 5 /\ all_txns[p].amount = WindowSum

\* a window of five captures, four of amount zero, the fifth flagged high
C15_Witness ==
    /\ Finished
    /\ WindowCount = 5
    /\ FlaggedHigh # {}

============================================================================
